---- MODULE Spec2Model ----
(***************************************************************************)
(* Model of src/streamlit_app.py, the Gangotri glacier dashboard script.   *)
(* One script run is: navigation (sidebar), CSV load, year-range slider,   *)
(* one page (Overview, Chart View, Prediction, Alerts, Map Overview),      *)
(* footer.  Streamlit reruns the whole script on every interaction.        *)
(*                                                                         *)
(* Data frames that the script mutates or copies (df, df_filtered,         *)
(* df_model) live in a heap of objects and the script variables hold       *)
(* references, so that aliasing is visible.  Areas are whole sq.km.  The   *)
(* numbers computed by scikit-learn and statsmodels are not modelled: a    *)
(* forecast row carries the token Fitted as its area.  Whether the ARIMA   *)
(* fit succeeds is the library's business and is a nondeterministic        *)
(* choice.                                                                 *)
(***************************************************************************)
EXTENDS Integers, Sequences, FiniteSets, TLC

\* ------------------------------------------------------------------ bounds
MaxRows == 2

Years == {2020, 2021, 2023}
Areas == {19, 20, 24, 25}

\* the scenario series of the specification, section 8
ScenarioSeries ==
    << [year |-> 2001, area_km2 |-> 50, na |-> "none"],
       [year |-> 2010, area_km2 |-> 40, na |-> "none"],
       [year |-> 2020, area_km2 |-> 25, na |-> "none"] >>

\* a CSV row; na names the cell that is missing in the file, if any
RawRows ==
    [year : Years, area_km2 : Areas, na : {"none"}]
      \cup {[year |-> 2021, area_km2 |-> 20, na |-> "area_km2"],
            [year |-> 2021, area_km2 |-> 20, na |-> "year"]}

SeqsUpTo(S, n) == UNION {[1..k -> S] : k \in 0..n}

CsvFiles == SeqsUpTo(RawRows, MaxRows) \cup {ScenarioSeries}

\* ------------------------------------------------------- pandas / numpy
Null == 0
Fitted == "fitted"
NoFrame == [cols |-> <<>>, rows |-> <<>>]

Max(S) == CHOOSE x \in S : \A y \in S : y <= x
Min(S) == CHOOSE x \in S : \A y \in S : x <= y

Column(frame, c) == [i \in 1..Len(frame.rows) |-> frame.rows[i][c]]

Range(s) == {s[i] : i \in 1..Len(s)}

\* df.dropna(subset=['year', 'area_km2']) of the parsed file
IsComplete(r) == r.na = "none"
ReadCsvDropna(file) ==
    LET kept == SelectSeq(file, IsComplete)
    IN [cols |-> <<"year", "area_km2">>,
        rows |-> [i \in 1..Len(kept) |->
                    [year |-> kept[i].year, area_km2 |-> kept[i].area_km2]]]

\* df[(df['year'] >= lo) & (df['year'] <= hi)] : a new frame, row order kept
FilterYears(frame, lo, hi) ==
    LET InRange(r) == r.year >= lo /\ r.year <= hi
    IN [cols |-> frame.cols, rows |-> SelectSeq(frame.rows, InRange)]

\* frame[c] = v : in-place column assignment
SetColumn(frame, c, v) ==
    [cols |-> IF c \in Range(frame.cols) THEN frame.cols
                                          ELSE Append(frame.cols, c),
     rows |-> [i \in 1..Len(frame.rows) |->
                 [k \in (DOMAIN frame.rows[i]) \cup {c} |->
                     IF k = c THEN v ELSE frame.rows[i][k]]]]

\* frame[[c1, c2, ...]] : column selection, a new frame
SelectColumns(frame, cs) ==
    [cols |-> cs,
     rows |-> [i \in 1..Len(frame.rows) |->
                 [k \in Range(cs) |-> frame.rows[i][k]]]]

\* pd.concat([a, b]) : rows of a followed by rows of b, no sorting
Concat(a, b) == [cols |-> a.cols, rows |-> a.rows \o b.rows]

\* np.arange(start, stop, step)
Arange(start, stop, step) ==
    [i \in 1..((stop - start + step - 1) \div step) |-> start + (i - 1) * step]

\* df_filtered.copy() : a new object with the same content
CopyAlias(h, r) == [heap |-> h, ref |-> r]
Copy(h, r) == [heap |-> Append(h, h[r]), ref |-> Len(h) + 1]

\* ------------------------------------------------------------ constants
Pages == {"Overview", "Chart View", "Prediction", "Alerts", "Map Overview"}
threshold == 20
warning_margin == 5
steps == 10
HorizonYear == 2050

\* ---------------------------------------------------------------- state
VARIABLES
    csv,            \* the file behind csv_url
    pc,             \* position of the script run
    page,           \* page chosen in the sidebar
    heap,           \* data frame objects
    df, df_filtered, df_model,   \* references into heap, or Null
    year_range,     \* <<lo, hi>> of the slider, <<>> before it
    pred_df, full_df, arima_df, all_df,  \* frames built by the Prediction page
    latest_area,    \* <<v>> once the Alerts page read it
    level,          \* level reported by the Alerts page, "none" before
    poly_status, arima_status,   \* "none", "ok", "failed"
    out             \* what the run has displayed, in order

vars == <<csv, pc, page, heap, df, df_filtered, df_model, year_range,
          pred_df, full_df, arima_df, all_df, latest_area, level,
          poly_status, arima_status, out>>

Fresh ==
    /\ pc = "nav"
    /\ page = "Overview"
    /\ heap = <<>>
    /\ df = Null /\ df_filtered = Null /\ df_model = Null
    /\ year_range = <<>>
    /\ pred_df = NoFrame /\ full_df = NoFrame
    /\ arima_df = NoFrame /\ all_df = NoFrame
    /\ latest_area = <<>>
    /\ level = "none"
    /\ poly_status = "none" /\ arima_status = "none"
    /\ out = <<>>

Init == csv \in CsvFiles /\ Fresh


\* --------------------------------------------------------------- helpers
Show(events) == out' = out \o events

Rows(ref) == heap[ref].rows

\* the uncaught exception of a script run: Streamlit shows it and stops the run
Abort == /\ Show(<<"exception">>)
         /\ pc' = "aborted"

\* Alerts page: the threshold rule
RiskLevelCriticalInclusive(v) ==
    IF v <= threshold THEN "Critical"
    ELSE IF v < threshold + warning_margin THEN "Warning"
    ELSE "Stable"
RiskLevelWarningInclusive(v) ==
    IF v < threshold THEN "Critical"
    ELSE IF v <= threshold + warning_margin THEN "Warning"
    ELSE "Stable"
RiskLevel(v) ==
    IF v < threshold THEN "Critical"
    ELSE IF v < threshold + warning_margin THEN "Warning"
    ELSE "Stable"

\* years given to the ARIMA forecasts: np.arange(last + 1, last + 11)
FutureYearsArimaFromLast(last) == Arange(last, last + steps, 1)
FutureYearsArima(last) == Arange(last + 1, last + steps + 1, 1)

\* --------------------------------------------------------------- actions
\* sidebar toggle and page radio
Navigate ==
    /\ pc = "nav"
    /\ \E show_sidebar \in BOOLEAN, choice \in Pages :
          page' = IF show_sidebar THEN choice ELSE "Overview"
    /\ pc' = "load"
    /\ UNCHANGED <<csv, heap, df, df_filtered, df_model, year_range, pred_df,
                   full_df, arima_df, all_df, latest_area, level,
                   poly_status, arima_status, out>>

\* read_csv and dropna succeed
LoadData ==
    /\ pc = "load"
    /\ heap' = Append(heap, ReadCsvDropna(csv))
    /\ df' = Len(heap) + 1
    /\ Show(<<"success:loaded">>)
    /\ pc' = "slider"
    /\ UNCHANGED <<csv, page, df_filtered, df_model, year_range, pred_df,
                   full_df, arima_df, all_df, latest_area, level,
                   poly_status, arima_status>>

\* read_csv raises (network, parse): reported, df = None, pages are skipped
LoadDataFail ==
    /\ pc = "load"
    /\ df' = Null
    /\ Show(<<"error:load", "exception:load">>)
    /\ pc' = "footer"
    /\ UNCHANGED <<csv, page, heap, df_filtered, df_model, year_range, pred_df,
                   full_df, arima_df, all_df, latest_area, level,
                   poly_status, arima_status>>

\* the slider returns a range inside [year_min, year_max]; df_filtered is built
Slider ==
    /\ pc = "slider"
    /\ Len(Rows(df)) > 0
    /\ LET year_min == Min(Range(Column(heap[df], "year")))
           year_max == Max(Range(Column(heap[df], "year")))
       IN \E lo \in year_min..year_max, hi \in year_min..year_max :
             /\ lo <= hi
             /\ year_range' = <<lo, hi>>
             /\ heap' = Append(heap, FilterYears(heap[df], lo, hi))
             /\ df_filtered' = Len(heap) + 1
    /\ pc' = "page"
    /\ UNCHANGED <<csv, page, df, df_model, pred_df, full_df, arima_df, all_df,
                   latest_area, level, poly_status, arima_status, out>>

\* int(nan) on an empty frame raises; a slider whose minimum equals its
\* maximum is rejected by some Streamlit versions
SliderRaise ==
    /\ pc = "slider"
    /\ \/ Len(Rows(df)) = 0
       \/ /\ Len(Rows(df)) > 0
          /\ Min(Range(Column(heap[df], "year")))
               = Max(Range(Column(heap[df], "year")))
    /\ Abort
    /\ UNCHANGED <<csv, page, heap, df, df_filtered, df_model, year_range,
                   pred_df, full_df, arima_df, all_df, latest_area, level,
                   poly_status, arima_status>>

Overview ==
    /\ pc = "page" /\ page = "Overview"
    /\ Show(<<"dataframe">>)
    /\ pc' = "footer"
    /\ UNCHANGED <<csv, page, heap, df, df_filtered, df_model, year_range,
                   pred_df, full_df, arima_df, all_df, latest_area, level,
                   poly_status, arima_status>>

ChartView ==
    /\ pc = "page" /\ page = "Chart View"
    /\ Show(<<"chart:line", "metric:loss">>)
    /\ pc' = "footer"
    /\ UNCHANGED <<csv, page, heap, df, df_filtered, df_model, year_range,
                   pred_df, full_df, arima_df, all_df, latest_area, level,
                   poly_status, arima_status>>

\* Prediction page up to the polynomial metrics; the fit needs one sample
PredictionPoly ==
    /\ pc = "page" /\ page = "Prediction"
    /\ Len(Rows(df_filtered)) > 0
    /\ LET c == Copy(heap, df_filtered)
           future_years == Arange(2025, 2051, 5)
           pred == [cols |-> <<"year", "area_km2", "type">>,
                    rows |-> [i \in 1..Len(future_years) |->
                                [year |-> future_years[i],
                                 area_km2 |-> Fitted,
                                 type |-> "Predicted"]]]
           typed == SetColumn(c.heap[c.ref], "type", "Observed")
       IN /\ df_model' = c.ref
          /\ heap' = [c.heap EXCEPT ![c.ref] = typed]
          /\ pred_df' = pred
          /\ full_df' = Concat(SelectColumns(typed, <<"year", "area_km2", "type">>),
                               pred)
          /\ Show(<<"chart:poly">>
                    \o [i \in 1..Len(future_years) |-> "metric:predicted"])
    /\ poly_status' = "ok"
    /\ pc' = "arima"
    /\ UNCHANGED <<csv, page, df, df_filtered, year_range, arima_df, all_df,
                   latest_area, level, arima_status>>

\* fit_transform on zero samples raises ValueError, which nothing catches
PredictionPolyRaise ==
    /\ pc = "page" /\ page = "Prediction"
    /\ Len(Rows(df_filtered)) = 0
    /\ LET c == Copy(heap, df_filtered)
       IN /\ df_model' = c.ref
          /\ heap' = c.heap
    /\ poly_status' = "failed"
    /\ Abort
    /\ UNCHANGED <<csv, page, df, df_filtered, year_range, pred_df, full_df,
                   arima_df, all_df, latest_area, level, arima_status>>

\* the try block runs to its end
PredictionArima ==
    /\ pc = "arima"
    /\ LET last == Rows(df_model)[Len(Rows(df_model))].year
           future_years_arima == FutureYearsArima(last)
           forecast == [i \in 1..steps |-> Fitted]
           a == [cols |-> <<"year", "area_km2", "type">>,
                 rows |-> [i \in 1..Len(forecast) |->
                             [year |-> future_years_arima[i],
                              area_km2 |-> forecast[i],
                              type |-> "ARIMA Forecast"]]]
       IN /\ arima_df' = a
          /\ all_df' = Concat(SelectColumns(heap[df_model],
                                            <<"year", "area_km2", "type">>), a)
    /\ Show(<<"chart:arima">>)
    /\ arima_status' = "ok"
    /\ pc' = "footer"
    /\ UNCHANGED <<csv, page, heap, df, df_filtered, df_model, year_range,
                   pred_df, full_df, latest_area, level, poly_status>>

\* the fit or the forecast raises: caught, a warning is shown
PredictionArimaUncaught ==
    /\ pc = "arima"
    /\ arima_status' = "failed"
    /\ Abort
    /\ UNCHANGED <<csv, page, heap, df, df_filtered, df_model, year_range,
                   pred_df, full_df, arima_df, all_df, latest_area, level,
                   poly_status>>
PredictionArimaFail ==
    /\ pc = "arima"
    /\ arima_status' = "failed"
    /\ Show(<<"warning:arima">>)
    /\ pc' = "footer"
    /\ UNCHANGED <<csv, page, heap, df, df_filtered, df_model, year_range,
                   pred_df, full_df, arima_df, all_df, latest_area, level,
                   poly_status>>

Alerts ==
    /\ pc = "page" /\ page = "Alerts"
    /\ Len(Rows(df_filtered)) > 0
    /\ LET v == Rows(df_filtered)[Len(Rows(df_filtered))].area_km2
       IN /\ latest_area' = <<v>>
          /\ level' = RiskLevel(v)
          /\ Show(<<CASE RiskLevel(v) = "Critical" -> "error:Critical"
                      [] RiskLevel(v) = "Warning" -> "warning:Warning"
                      [] OTHER -> "success:Stable">>)
    /\ pc' = "footer"
    /\ UNCHANGED <<csv, page, heap, df, df_filtered, df_model, year_range,
                   pred_df, full_df, arima_df, all_df, poly_status,
                   arima_status>>

\* iloc[-1] on an empty frame raises IndexError
AlertsRaise ==
    /\ pc = "page" /\ page = "Alerts"
    /\ Len(Rows(df_filtered)) = 0
    /\ Abort
    /\ UNCHANGED <<csv, page, heap, df, df_filtered, df_model, year_range,
                   pred_df, full_df, arima_df, all_df, latest_area, level,
                   poly_status, arima_status>>

MapOverview ==
    /\ pc = "page" /\ page = "Map Overview"
    /\ Show(<<"map">>)
    /\ pc' = "footer"
    /\ UNCHANGED <<csv, page, heap, df, df_filtered, df_model, year_range,
                   pred_df, full_df, arima_df, all_df, latest_area, level,
                   poly_status, arima_status>>

Footer ==
    /\ pc = "footer"
    /\ Show(<<"footer">>)
    /\ pc' = "done"
    /\ UNCHANGED <<csv, page, heap, df, df_filtered, df_model, year_range,
                   pred_df, full_df, arima_df, all_df, latest_area, level,
                   poly_status, arima_status>>

\* an interaction reruns the script from the top; the file is the same
Rerun ==
    /\ pc \in {"done", "aborted"}
    /\ pc' = "nav"
    /\ page' = "Overview"
    /\ heap' = <<>>
    /\ df' = Null /\ df_filtered' = Null /\ df_model' = Null
    /\ year_range' = <<>>
    /\ pred_df' = NoFrame /\ full_df' = NoFrame
    /\ arima_df' = NoFrame /\ all_df' = NoFrame
    /\ latest_area' = <<>>
    /\ level' = "none"
    /\ poly_status' = "none" /\ arima_status' = "none"
    /\ out' = <<>>
    /\ UNCHANGED csv

Next ==
    \/ Navigate
    \/ LoadData
    \/ LoadDataFail
    \/ Slider
    \/ SliderRaise
    \/ Overview
    \/ ChartView
    \/ PredictionPoly
    \/ PredictionPolyRaise
    \/ PredictionArima
    \/ PredictionArimaFail
    \/ Alerts
    \/ AlertsRaise
    \/ MapOverview
    \/ Footer
    \/ Rerun

Spec == Init /\ [][Next]_vars


\* ------------------------------------------------------------ properties
AlertEvents == {"error:Critical", "warning:Warning", "success:Stable"}
Shown(e) == \E i \in DOMAIN out : out[i] = e
CountShown(E) == Cardinality({i \in DOMAIN out : out[i] \in E})
AlertsEvaluated == level # "none"
LastRow(ref) == Rows(ref)[Len(Rows(ref))]

\* C1: whenever the Alerts page has classified a latest area v, the level is
\* Critical for v < 20, Warning for 20 <= v < 25 and Stable for v >= 25, and
\* exactly one alert of the three has been displayed, the one of that level.
C1_ThresholdRule ==
    AlertsEvaluated =>
        /\ Len(latest_area) = 1
        /\ LET v == latest_area[1]
           IN /\ (v < 20) => (level = "Critical" /\ Shown("error:Critical"))
              /\ (20 <= v /\ v < 25)
                    => (level = "Warning" /\ Shown("warning:Warning"))
              /\ (v >= 25) => (level = "Stable" /\ Shown("success:Stable"))
        /\ CountShown(AlertEvents) = 1

C1_Witness ==
    /\ pc = "done" /\ page = "Alerts"
    /\ latest_area = <<24>> /\ level = "Warning"

\* the scenario series is loaded and the Alerts page classified its last point
ScenarioLastPointEvaluated ==
    /\ csv = ScenarioSeries
    /\ AlertsEvaluated
    /\ LastRow(df_filtered) = [year |-> 2020, area_km2 |-> 25]

\* C2 as stated: for the scenario series the risk of the last point (25.0)
\* is Warning.
C2_ScenarioWarning ==
    ScenarioLastPointEvaluated => level = "Warning"

\* C2 amended: for the scenario series the risk of the last point (25.0) is
\* Stable, since 25 is not below critical + warning_margin = 25.
C2_ScenarioStable ==
    ScenarioLastPointEvaluated => (level = "Stable" /\ latest_area = <<25>>)

C2_Witness ==
    /\ ScenarioLastPointEvaluated
    /\ year_range = <<2001, 2020>>
    /\ pc = "done"

\* C3: once the ARIMA step has failed, the failure has been reported as a
\* warning, the polynomial chart and its six metrics of the same run are on
\* display, no uncaught exception stopped the run, and the run is at or past
\* its footer.
C3_ArimaFailureNotFatal ==
    arima_status = "failed" =>
        /\ Shown("warning:arima")
        /\ poly_status = "ok"
        /\ Shown("chart:poly")
        /\ CountShown({"metric:predicted"}) = 6
        /\ ~Shown("exception")
        /\ pc \in {"footer", "done"}
        /\ (pc = "done" => out[Len(out)] = "footer")

C3_Witness ==
    /\ arima_status = "failed"
    /\ pc = "done"
    /\ Len(full_df.rows) = Len(Rows(df_filtered)) + 6

\* C4 as stated: when a run of the Prediction page has ended and one of the
\* two fits failed, the other fit was attempted.
C4_FitsIndependent ==
    (pc \in {"done", "aborted"} /\ page = "Prediction") =>
        /\ (poly_status = "failed" => arima_status # "none")
        /\ (arima_status = "failed" => poly_status # "none")

\* C5 as stated: no model is fitted to a filtered series of fewer than two
\* observations; the Prediction page ends such a run with an error instead.
C5_DegenerateRejected ==
    (df_filtered # Null /\ page = "Prediction"
       /\ Len(Rows(df_filtered)) < 2) =>
        /\ poly_status # "ok"
        /\ arima_status = "none"
        /\ (pc \in {"done", "aborted"} => Shown("exception"))

\* rows of a merged frame ascend by year, an observed row first within a year
MergedSorted(frame) ==
    \A i, j \in DOMAIN frame.rows :
        i < j =>
            /\ frame.rows[i].year <= frame.rows[j].year
            /\ (frame.rows[i].year = frame.rows[j].year
                  => ~(frame.rows[i].type # "Observed"
                         /\ frame.rows[j].type = "Observed"))

\* C6 as stated: the merged observed-plus-forecast frames of the Prediction
\* page (full_df, all_df) are sorted by year ascending, observed before
\* forecast within a year.
C6_MergedSorted ==
    MergedSorted(full_df) /\ MergedSorted(all_df)

\* C7 as stated: the loaded series never holds two rows with the same year.
C7_YearsUnique ==
    df # Null =>
        \A i, j \in DOMAIN Rows(df) :
            i # j => Rows(df)[i].year # Rows(df)[j].year

\* C8 as stated: the number of ARIMA forecasts is horizon_year minus the last
\* observed year (the script's horizon is 2050), on consecutive years from
\* the last observed year + 1.
C8_StepsFromHorizon ==
    arima_status = "ok" =>
        /\ Len(arima_df.rows) = HorizonYear - LastRow(df_model).year
        /\ \A i \in DOMAIN arima_df.rows :
              arima_df.rows[i].year = LastRow(df_model).year + i

\* C8 amended: the number of ARIMA forecasts is always 10, whatever the last
\* observed year, and forecast i is assigned the year of the last row of the
\* filtered series + i, for i = 1..10.
C8_TenSteps ==
    arima_status = "ok" =>
        /\ Len(arima_df.rows) = 10
        /\ \A i \in 1..10 :
              /\ arima_df.rows[i].year = LastRow(df_filtered).year + i
              /\ arima_df.rows[i].type = "ARIMA Forecast"
        /\ Len(all_df.rows) = Len(Rows(df_filtered)) + 10

C8_Witness ==
    /\ arima_status = "ok"
    /\ pc = "done"
    /\ LastRow(df_filtered).year = 2021
    /\ arima_df.rows[1].year = 2022 /\ arima_df.rows[10].year = 2031

\* C9 as stated: the area the Alerts page classifies is the area of an
\* observation with the greatest year of the loaded series.
C9_LatestStored ==
    AlertsEvaluated =>
        \E i \in DOMAIN Rows(df) :
            /\ \A j \in DOMAIN Rows(df) : Rows(df)[j].year <= Rows(df)[i].year
            /\ latest_area = <<Rows(df)[i].area_km2>>

\* C10: within a run no step changes the loaded frame or the filtered frame:
\* as long as df (df_filtered) refers to the same object, that object's
\* columns and rows are what they were.
C10_LoadedImmutable ==
    [][/\ (df # Null /\ df' = df) => heap'[df] = heap[df]
       /\ (df_filtered # Null /\ df_filtered' = df_filtered)
             => heap'[df_filtered] = heap[df_filtered]]_vars

C10_Witness ==
    /\ pc = "done" /\ arima_status = "ok"
    /\ heap[df_model].cols = <<"year", "area_km2", "type">>
    /\ heap[df_filtered].cols = <<"year", "area_km2">>
    /\ heap[df].cols = <<"year", "area_km2">>
    /\ Len(Rows(df)) = 2 /\ Len(Rows(df_filtered)) = 1
    /\ Len(all_df.rows) = 11

====
